---- MODULE Spec2Model ----
(***************************************************************************)
(* A model of the documentation search pipeline of search.py:              *)
(* download_zip, extract_md_files, build_index, search and the             *)
(* process-wide index cache behind get_cached_index, and of search_docs    *)
(* of main.py, which puts them together.                                   *)
(*                                                                         *)
(* A Python str is a sequence of one-character strings; a Python value is  *)
(* a record [t, s, n] carrying its type name.  The filesystem and the      *)
(* cache are functions whose DOMAIN is the set of existing paths / keys,   *)
(* as a directory listing and a Python dict are.                           *)
(***************************************************************************)
EXTENDS Integers, Sequences, FiniteSets, TLC

(***************************************************************************)
(* Bounds of the model.                                                    *)
(***************************************************************************)
\* index objects that may be built in one behaviour
MaxBuilds == 3
\* times the remote side may replace what the URLs serve
MaxRemoteVer == 1
\* entries of an archive handed to extract_md_files directly
MaxEntries == 3
\* elements of a list handed to build_index directly
MaxDocs == 2
\* the largest result limit handed to search
MaxNum == 2
\* how far past the preview length a document may run
MaxOver == 3

(***************************************************************************)
(* Constants of the program.                                               *)
(***************************************************************************)
\* main.py 101: the characters of a content preview
PreviewLen == 500

(***************************************************************************)
(* Python values and strings.                                              *)
(***************************************************************************)
Str(chars) == [t |-> "str", s |-> chars, n |-> 0]
PyNone == [t |-> "NoneType", s |-> <<>>, n |-> 0]
PyInt(k) == [t |-> "int", s |-> <<>>, n |-> k]
\* True and False: bool is a subclass of int, True == 1 and False == 0
PyBool(b) == [t |-> "bool", s |-> <<>>, n |-> IF b THEN 1 ELSE 0]
\* a float: its integral part and the digits after the point
PyFloat(k, frac) == [t |-> "float", s |-> frac, n |-> k]
\* isinstance(v, int)
IsInt(v) == v.t \in {"int", "bool"}

\* bool(v) for the value types of the model
Truthy(v) ==
  CASE v.t = "str" -> v.s # <<>>
    [] v.t = "int" -> v.n # 0
    [] OTHER -> FALSE

SetMin(S) == CHOOSE x \in S : \A y \in S : x <= y
SetMax(S) == CHOOSE x \in S : \A y \in S : x >= y

\* str.find(c, from): 1-based position of the first c at or after from, 0 if none
Find(s, c, from) ==
  LET I == {i \in from..Len(s) : s[i] = c}
  IN  IF I = {} THEN 0 ELSE SetMin(I)

\* str.rfind(c): 1-based position of the last c, 0 if none
RFind(s, c) ==
  LET I == {i \in 1..Len(s) : s[i] = c}
  IN  IF I = {} THEN 0 ELSE SetMax(I)

\* s[i:] for a 1-based i, and s[:i-1]
From(s, i) == SubSeq(s, i, Len(s))
Upto(s, i) == SubSeq(s, 1, i)
\* s[:n]
Slice(s, n) == SubSeq(s, 1, IF Len(s) < n THEN Len(s) ELSE n)

\* str.strip(): without the whitespace at either end
Whitespace == {" ", "\t", "\n"}
\* a strip that takes nothing away
StripNothing(s) == s
Strip(s) ==
  LET I == {i \in 1..Len(s) : s[i] \notin Whitespace}
  IN  IF I = {} THEN <<>> ELSE SubSeq(s, SetMin(I), SetMax(I))

StartsWith(s, p) == Len(s) >= Len(p) /\ SubSeq(s, 1, Len(p)) = p
EndsWith(s, p) == Len(s) >= Len(p) /\ SubSeq(s, Len(s) - Len(p) + 1, Len(s)) = p

Letters == {"a", "b", "c", "d", "f", "g", "h", "i", "p", "q", "s", "t", "v", "x", "y", "z",
            "H", "T", "P"}
Digits == {"8"}
\* urllib.parse.scheme_chars
SchemeChars == Letters \cup Digits \cup {"+", "-", "."}

\* str.lower()
Lower(c) ==
  CASE c = "H" -> "h"
    [] c = "T" -> "t"
    [] c = "P" -> "p"
    [] OTHER -> c
LowerStr(s) == [i \in 1..Len(s) |-> Lower(s[i])]

HTTP == <<"h", "t", "t", "p">>
HTTPS == <<"h", "t", "t", "p", "s">>
FTP == <<"f", "t", "p">>
DotZip == <<".", "z", "i", "p">>
DownloadZipName == <<"d", "o", "w", "n", "l", "o", "a", "d", ".", "z", "i", "p">>

(***************************************************************************)
(* urllib.parse.urlparse, as download_zip uses it.                         *)
(***************************************************************************)
\* schemes of urllib.parse.uses_params that the alphabet can spell
UsesParams == {<<>>, FTP, HTTP, HTTPS}

\* urlsplit step 1: a leading "scheme:" is split off when it starts with a
\* letter and holds scheme characters only
SplitScheme(url) ==
  LET i == Find(url, ":", 1)
  IN  IF /\ i > 1
         /\ url[1] \in Letters
         /\ \A k \in 1..(i - 1) : url[k] \in SchemeChars
      THEN [scheme |-> LowerStr(Upto(url, i - 1)), rest |-> From(url, i + 1)]
      ELSE [scheme |-> <<>>, rest |-> url]

\* urlsplit step 2 (_splitnetloc): after "//" the netloc runs to the first
\* of "/", "?", "#"
SplitNetloc(rest) ==
  IF StartsWith(rest, <<"/", "/">>)
  THEN LET D == {i \in 3..Len(rest) : rest[i] \in {"/", "?", "#"}}
           delim == IF D = {} THEN Len(rest) + 1 ELSE SetMin(D)
       IN  [netloc |-> SubSeq(rest, 3, delim - 1), rest |-> From(rest, delim)]
  ELSE [netloc |-> <<>>, rest |-> rest]

\* urlsplit steps 3 and 4: the fragment is cut at the first "#", then the
\* query at the first "?"
SplitFragment(rest) ==
  LET i == Find(rest, "#", 1)
  IN  IF i > 0
      THEN [rest |-> Upto(rest, i - 1), fragment |-> From(rest, i + 1)]
      ELSE [rest |-> rest, fragment |-> <<>>]

SplitQuery(rest) ==
  LET i == Find(rest, "?", 1)
  IN  IF i > 0
      THEN [rest |-> Upto(rest, i - 1), query |-> From(rest, i + 1)]
      ELSE [rest |-> rest, query |-> <<>>]

\* urllib.parse._splitparams: the ";params" of the last path segment
SplitParams(p) ==
  LET slash == RFind(p, "/")
      i == IF slash > 0 THEN Find(p, ";", slash) ELSE Find(p, ";", 1)
  IN  IF i = 0
      THEN [path |-> p, params |-> <<>>]
      ELSE [path |-> Upto(p, i - 1), params |-> From(p, i + 1)]

urlparse(url) ==
  LET a == SplitScheme(url)
      b == SplitNetloc(a.rest)
      c == SplitFragment(b.rest)
      d == SplitQuery(c.rest)
      e == IF a.scheme \in UsesParams /\ Find(d.rest, ";", 1) > 0
           THEN SplitParams(d.rest)
           ELSE [path |-> d.rest, params |-> <<>>]
  IN  [scheme |-> a.scheme, netloc |-> b.netloc, path |-> e.path,
       params |-> e.params, query |-> d.query, fragment |-> c.fragment]

\* os.path.basename and os.path.join (posixpath)
basename(p) == From(p, RFind(p, "/") + 1)

join(a, b) ==
  IF StartsWith(b, <<"/">>) THEN b
  ELSE IF a = <<>> \/ EndsWith(a, <<"/">>) THEN a \o b
  ELSE a \o <<"/">> \o b

(***************************************************************************)
(* The URL inputs, written from their parts (RFC 3986: scheme, authority   *)
(* = host and port, path, query, fragment) so that what download_zip       *)
(* parses back can be compared with what the URL was made of.              *)
(***************************************************************************)
PartSchemes == {<<>>, HTTP, HTTPS, FTP}
PartHosts == {<<>>, <<"h">>}
PartPorts == {<<>>, <<":", "8">>}
PartPaths ==
  { <<>>,
    <<"/", "a", ".", "z", "i", "p">>,
    <<"/", "d", "/", "a", ".", "z", "i", "p">>,
    <<"/", "b">>,
    <<"/", "a", ".", "z", "i", "p", "/">>,
    <<"/", "x", ";", "y", ".", "z", "i", "p">>,
    <<"/", "a", ".", "z", "i", "p", ";", "v">>,
    <<"h", "/", "a", ".", "z", "i", "p">> }
PartQueries == {<<>>, <<"?", "q">>, <<"?", "/", "b", ".", "z", "i", "p">>}
PartFragments == {<<>>, <<"#", "/", "c", ".", "z", "i", "p">>}

\* query and fragment carry their delimiter; <<>> means the part is absent
UrlParts ==
  { c \in [scheme : PartSchemes, auth : BOOLEAN, host : PartHosts, port : PartPorts,
           path : PartPaths, query : PartQueries, fragment : PartFragments] :
      /\ ~c.auth => (c.host = <<>> /\ c.port = <<>>)
      /\ c.auth => (c.path = <<>> \/ c.path[1] = "/") }

Compose(c) ==
  (IF c.scheme = <<>> THEN <<>> ELSE c.scheme \o <<":">>)
    \o (IF c.auth THEN <<"/", "/">> \o c.host \o c.port ELSE <<>>)
    \o c.path \o c.query \o c.fragment

(***************************************************************************)
(* download_zip: the checks and the derived path (pure part).              *)
(***************************************************************************)
\* search.py 57-62: a non-empty str whose scheme is http or https and whose
\* netloc is non-empty
UrlOk(u) ==
  /\ Truthy(u)
  /\ u.t = "str"
  /\ LET parsed == urlparse(u.s)
     IN  parsed.scheme \in {HTTP, HTTPS} /\ parsed.netloc # <<>>

\* search.py 64-67
FileName(u) ==
  LET filename == basename(urlparse(u.s).path)
  IN  IF EndsWith(filename, DotZip) THEN filename ELSE DownloadZipName

\* search.py 69
DestPath(u, dest_dir) == join(dest_dir, FileName(u))

\* the host requests connects to: the netloc without its ":port"
HostName(netloc) ==
  LET i == Find(netloc, ":", 1)
  IN  IF i = 0 THEN netloc ELSE Upto(netloc, i - 1)

(***************************************************************************)
(* The world outside the process: what the URLs serve, and files.          *)
(***************************************************************************)
\* dest_dir defaults to "." (download_zip and get_cached_index)
DefaultDir == <<".">>
DzDirs == {DefaultDir, <<"d", "/">>}

\* the URLs get_cached_index is called with
U1 == Str(Compose([scheme |-> HTTP, auth |-> TRUE, host |-> <<"h">>, port |-> <<>>,
        path |-> <<"/", "a", ".", "z", "i", "p">>, query |-> <<>>, fragment |-> <<>>]))
\* another authority, the same final path segment
U2 == Str(Compose([scheme |-> HTTP, auth |-> TRUE, host |-> <<"h">>, port |-> <<":", "8">>,
        path |-> <<"/", "a", ".", "z", "i", "p">>, query |-> <<>>, fragment |-> <<>>]))
\* U1 with a query string
U3 == Str(Compose([scheme |-> HTTP, auth |-> TRUE, host |-> <<"h">>, port |-> <<>>,
        path |-> <<"/", "a", ".", "z", "i", "p">>, query |-> <<"?", "q">>, fragment |-> <<>>]))
\* no ".zip" segment: saved as download.zip
U4 == Str(Compose([scheme |-> HTTPS, auth |-> TRUE, host |-> <<"h">>, port |-> <<>>,
        path |-> <<"/", "b">>, query |-> <<>>, fragment |-> <<>>]))
\* no scheme
UBad == Str(Compose([scheme |-> <<>>, auth |-> FALSE, host |-> <<>>, port |-> <<>>,
        path |-> <<"h", "/", "a", ".", "z", "i", "p">>, query |-> <<>>, fragment |-> <<>>]))
Urls == {U1, U2, U3, U4, UBad, PyNone}

\* A content is what a URL served at some time: [origin, ver].  External is
\* the origin of a file somebody else put in the directory, Garbled of the
\* bytes two writers left in one file.
External == [t |-> "external", s |-> <<>>, n |-> 0]
Garbled == [t |-> "garbled", s |-> <<>>, n |-> 0]
Nothing == [t |-> "nothing", s |-> <<>>, n |-> 0]
NoContent == [origin |-> Nothing, ver |-> 0]
ExternalContent == [origin |-> External, ver |-> 0]
GarbledContent == [origin |-> Garbled, ver |-> 0]

\* an entry of a zip archive: its name, and whether its bytes decode as UTF-8
Entry(name, utf8) == [filename |-> name, utf8 |-> utf8]
RootDir == <<"r", "/">>
ReadmeMd == <<"r", "/", "a", ".", "m", "d">>
CodePy == <<"r", "/", "c", ".", "p", "y">>

\* the content of a zip file made locally from the given entries
LocalZip(entries) == [origin |-> [t |-> "zip", s |-> entries, n |-> 0], ver |-> 0]

\* "zip": a zip archive; "notzip": bytes that are no zip container (an
\* error page, a file of another kind)
Kind(content) ==
  CASE content.origin.t = "zip" -> "zip"
    [] content.origin \in {External, Garbled, Nothing} -> "notzip"
    [] content.origin = U4 /\ content.ver > 0 -> "notzip"
    [] OTHER -> "zip"

\* the entries of the archive a content holds; U4 serves an archive without
\* markdown files
ArchiveOf(content) ==
  IF content.origin.t = "zip" THEN content.origin.s
  ELSE IF content.origin = U4
  THEN <<Entry(RootDir, TRUE), Entry(CodePy, TRUE)>>
  ELSE <<Entry(RootDir, TRUE), Entry(ReadmeMd, TRUE), Entry(CodePy, TRUE)>>

(***************************************************************************)
(* extract_md_files: the loop over the archive's entries (pure part).      *)
(***************************************************************************)
MdSuffix == <<".", "m", "d">>
MdxSuffix == <<".", "m", "d", "x">>

\* ZipInfo.is_dir(): the name ends in "/"
is_dir(e) == e.filename # <<>> /\ e.filename[Len(e.filename)] = "/"

\* a clean name that drops every directory of the path
CleanFilenameLastSegment(filename) == From(filename, RFind(filename, "/") + 1)

\* search.py 138-142: filename.split('/', 1), the part after the first "/"
CleanFilename(filename) ==
  LET i == Find(filename, "/", 1)
  IN  IF i > 0 THEN From(filename, i + 1) ELSE filename

\* a filter that knows the ".md" suffix only
QualifiesMdOnly(e) ==
  /\ ~is_dir(e)
  /\ EndsWith(e.filename, MdSuffix)
  /\ CleanFilename(e.filename) # <<>>
  /\ e.utf8

\* search.py 128-156: the entries that become documents
Qualifies(e) ==
  /\ ~is_dir(e)
  /\ EndsWith(e.filename, MdSuffix) \/ EndsWith(e.filename, MdxSuffix)
  /\ CleanFilename(e.filename) # <<>>
  /\ e.utf8

\* the text of entry e of the archive held by content
Doc(e, content) ==
  [filename |-> CleanFilename(e.filename), content |-> [of |-> content, entry |-> e.filename]]

RECURSIVE ExtractDocs(_, _)
ExtractDocs(entries, content) ==
  IF entries = <<>> THEN <<>>
  ELSE (IF Qualifies(Head(entries)) THEN <<Doc(Head(entries), content)>> ELSE <<>>)
         \o ExtractDocs(Tail(entries), content)

(***************************************************************************)
(* State.                                                                  *)
(***************************************************************************)
VARIABLES
  cache,      \* _index_cache: URL value -> index
  fs,         \* the files: path -> [content, complete]
  remoteVer,  \* the version of what the URLs serve now
  nextId,     \* index objects built so far; an index's id is its identity
  th,         \* per thread: position in the call and its locals
  last,       \* URL value -> outcome of the latest finished get_cached_index call
  faulted,    \* whether the network or the disk has failed so far
  made        \* the parts the URL of a direct download_zip call was written from

vars == <<cache, fs, remoteVer, nextId, th, last, faulted, made>>

Threads == {1, 2}
\* sequential use: every call is made from the main thread
MainThread == CHOOSE t \in Threads : \A o \in Threads : t <= o

NoIndex == [id |-> 0, docs |-> <<>>]
NoOutcome == [status |-> "none", index |-> NoIndex]
EmptyDict == [k \in {} |-> NoIndex]
NoFiles == [p \in {} |-> [content |-> NoContent, complete |-> FALSE]]
NoParts == [scheme |-> <<>>, auth |-> FALSE, host |-> <<>>, port |-> <<>>,
            path |-> <<>>, query |-> <<>>, fragment |-> <<>>]

\* dict / directory update: d[k] = v
Put(d, k, v) == [x \in DOMAIN d \cup {k} |-> IF x = k THEN v ELSE d[x]]

IdleThread ==
  [pc |-> "idle", entry |-> "", url |-> PyNone, dir |-> <<>>, path |-> <<>>,
   resp |-> NoContent, docs |-> <<>>, built |-> NoIndex,
   exc |-> "", why |-> "", msg |-> "", raisedBy |-> "", retIndex |-> NoIndex,
   arg |-> PyNone, index |-> PyNone, query |-> PyNone, num |-> PyNone,
   passed |-> <<>>, got |-> <<>>, results |-> <<>>, ret |-> <<>>,
   stages |-> <<>>, io |-> <<>>,
   cache0 |-> EmptyDict, fs0 |-> NoFiles, nextId0 |-> 0, prior |-> NoOutcome]

Idle(t) == th[t].pc \in {"idle", "returned", "raised"}
InFlight == Cardinality({t \in Threads : ~Idle(t)})

Init ==
  /\ cache = EmptyDict
  /\ fs = NoFiles
  /\ remoteVer = 0
  /\ nextId = 0
  /\ th = [t \in Threads |-> IdleThread]
  /\ last = [k \in {} |-> NoOutcome]
  /\ faulted = FALSE
  /\ made = NoParts

\* the locals of a call that has just been entered
Entered(t, entry, u, d) ==
  [IdleThread EXCEPT !.entry = entry, !.url = u, !.dir = d,
                     !.cache0 = cache, !.fs0 = fs, !.nextId0 = nextId,
                     !.prior = IF u \in DOMAIN last THEN last[u] ELSE NoOutcome]

\* the outcome a finished get_cached_index call leaves in "last"
Finish(t, rec) ==
  last' = IF rec.entry = "get_cached_index" /\ rec.pc \in {"returned", "raised"}
          THEN Put(last, rec.url, [status |-> rec.pc, index |-> rec.retIndex])
          ELSE last

\* raise exc out of the running call: nothing catches it on the way up
Raised(rec, exc, why, by) ==
  [rec EXCEPT !.pc = "raised", !.exc = exc, !.why = why, !.raisedBy = by]

\* download_zip returns dest_path: to its caller, or into line 256
AfterDownload(rec) ==
  IF rec.entry = "download_zip"
  THEN [rec EXCEPT !.pc = "returned"]
  ELSE [rec EXCEPT !.pc = "extract", !.stages = Append(@, "extract_md_files")]

(***************************************************************************)
(* get_cached_index, search.py 254-258.                                    *)
(***************************************************************************)
\* a lookup that never finds the key
InCacheNever(u) == FALSE

\* line 254: zip_url in _index_cache
InCache(u) == u \in DOMAIN cache

\* get_cached_index putting a placeholder under the key before the index is built
GetCachedIndexPlaceholder(t, u) ==
  /\ Idle(t)
  /\ IF InCache(u)
     THEN LET rec == [Entered(t, "get_cached_index", u, DefaultDir) EXCEPT
                        !.pc = "returned", !.retIndex = cache[u]]
          IN  th' = [th EXCEPT ![t] = rec] /\ Finish(t, rec) /\ UNCHANGED cache
     ELSE /\ nextId + InFlight < MaxBuilds
          /\ th' = [th EXCEPT ![t] =
                      [Entered(t, "get_cached_index", u, DefaultDir) EXCEPT
                         !.pc = "dz_validate", !.stages = <<"download_zip">>]]
          /\ cache' = Put(cache, u, NoIndex)
          /\ UNCHANGED last
  /\ UNCHANGED <<fs, remoteVer, nextId, faulted, made>>

\* the call and the test of line 254: a hit returns the stored index
\* (line 258), a miss enters download_zip (line 255)
get_cached_index(t, u) ==
  /\ Idle(t)
  /\ IF InCache(u)
     THEN LET rec == [Entered(t, "get_cached_index", u, DefaultDir) EXCEPT
                        !.pc = "returned", !.retIndex = cache[u]]
          IN  th' = [th EXCEPT ![t] = rec] /\ Finish(t, rec)
     ELSE /\ nextId + InFlight < MaxBuilds
          /\ th' = [th EXCEPT ![t] =
                      [Entered(t, "get_cached_index", u, DefaultDir) EXCEPT
                         !.pc = "dz_validate", !.stages = <<"download_zip">>]]
          /\ UNCHANGED last
  /\ UNCHANGED <<cache, fs, remoteVer, nextId, faulted, made>>

(***************************************************************************)
(* download_zip, search.py 57-97.                                          *)
(***************************************************************************)
\* lines 57-69: the URL checks, then the derived path
DzValidate(t) ==
  /\ th[t].pc = "dz_validate"
  /\ LET rec == IF UrlOk(th[t].url)
                THEN [th[t] EXCEPT !.pc = "dz_exists",
                                   !.path = DestPath(th[t].url, th[t].dir)]
                ELSE Raised(th[t], "ValueError", "invalid url", "download_zip")
     IN  th' = [th EXCEPT ![t] = rec] /\ Finish(t, rec)
  /\ UNCHANGED <<cache, fs, remoteVer, nextId, faulted, made>>

\* download_zip without the test of line 72: it downloads every time
DzExistsIgnored(t) ==
  /\ th[t].pc = "dz_exists"
  /\ th' = [th EXCEPT ![t] = [@ EXCEPT !.pc = "dz_get", !.io = Append(@, "exists")]]
  /\ UNCHANGED <<cache, fs, remoteVer, nextId, last, faulted, made>>

\* a download_zip that fetches again when the existing file is no complete
\* zip archive
DzExistsRevalidating(t) ==
  /\ th[t].pc = "dz_exists"
  /\ LET seen == [th[t] EXCEPT !.io = Append(@, "exists")]
     IN  th' = [th EXCEPT ![t] =
                  IF /\ th[t].path \in DOMAIN fs
                     /\ fs[th[t].path].complete
                     /\ Kind(fs[th[t].path].content) = "zip"
                  THEN AfterDownload(seen)
                  ELSE [seen EXCEPT !.pc = "dz_get"]]
  /\ UNCHANGED <<cache, fs, remoteVer, nextId, last, faulted, made>>

\* lines 71-73: an existing file is returned as it is
DzExists(t) ==
  /\ th[t].pc = "dz_exists"
  /\ LET seen == [th[t] EXCEPT !.io = Append(@, "exists")]
     IN  th' = [th EXCEPT ![t] =
                  IF th[t].path \in DOMAIN fs
                  THEN AfterDownload(seen)
                  ELSE [seen EXCEPT !.pc = "dz_get"]]
  /\ UNCHANGED <<cache, fs, remoteVer, nextId, last, faulted, made>>

\* the exceptions requests.get and raise_for_status raise, by class
TransportFaults ==
  {"ConnectTimeout", "Timeout", "ConnectionError", "HTTPError", "RequestException"}

\* the except clauses a raised class is an instance of: ConnectTimeout derives
\* from ConnectionError and Timeout, every class of requests.exceptions from
\* RequestException, and RequestException from IOError
Bases(cls) ==
  CASE cls = "ConnectTimeout" ->
         {"Timeout", "ConnectionError", "RequestException", "IOError"}
    [] cls = "Timeout" -> {"Timeout", "RequestException", "IOError"}
    [] cls = "ConnectionError" -> {"ConnectionError", "RequestException", "IOError"}
    [] cls = "HTTPError" -> {"HTTPError", "RequestException", "IOError"}
    [] cls = "RequestException" -> {"RequestException", "IOError"}
    [] cls = "IOError" -> {"IOError"}
    [] OTHER -> {}

\* except clauses that try IOError first
ExceptClausesIOErrorFirst ==
  << [class |-> "IOError", exc |-> "DownloadError", msg |-> "Failed to save file"],
     [class |-> "Timeout", exc |-> "DownloadError", msg |-> "Download timed out"],
     [class |-> "ConnectionError", exc |-> "DownloadError", msg |-> "Connection error"],
     [class |-> "HTTPError", exc |-> "DownloadError", msg |-> "HTTP error"],
     [class |-> "RequestException", exc |-> "DownloadError", msg |-> "Download failed"] >>

\* lines 88-97: the except clauses in the order they are tried, with what
\* each raises
ExceptClauses ==
  << [class |-> "Timeout", exc |-> "DownloadError", msg |-> "Download timed out"],
     [class |-> "ConnectionError", exc |-> "DownloadError", msg |-> "Connection error"],
     [class |-> "HTTPError", exc |-> "DownloadError", msg |-> "HTTP error"],
     [class |-> "RequestException", exc |-> "DownloadError", msg |-> "Download failed"],
     [class |-> "IOError", exc |-> "DownloadError", msg |-> "Failed to save file"] >>

\* an exception of class cls leaves the try block of lines 75-86: the first
\* clause it is an instance of raises in its place, and an exception no
\* clause names goes up as it is
Handled(rec, cls) ==
  LET I == {i \in 1..Len(ExceptClauses) : ExceptClauses[i].class \in Bases(cls)}
  IN  IF I = {}
      THEN Raised(rec, cls, cls, "download_zip")
      ELSE [Raised(rec, ExceptClauses[SetMin(I)].exc, cls, "download_zip") EXCEPT
              !.msg = ExceptClauses[SetMin(I)].msg]

\* lines 76-77: requests.get and raise_for_status.  A URL without a host
\* cannot be requested (requests raises InvalidURL, a RequestException).
DzGet(t) ==
  /\ th[t].pc = "dz_get"
  /\ LET asked == [th[t] EXCEPT !.io = Append(@, "get")]
     IN  \/ /\ HostName(urlparse(th[t].url.s).netloc) # <<>>
            /\ th' = [th EXCEPT ![t] =
                        [asked EXCEPT !.pc = "dz_open",
                                      !.resp = [origin |-> th[t].url, ver |-> remoteVer]]]
            /\ UNCHANGED <<last, faulted>>
         \/ \E f \in TransportFaults :
              /\ HostName(urlparse(th[t].url.s).netloc) = <<>> => f = "RequestException"
              /\ LET rec == Handled(asked, f)
                 IN  th' = [th EXCEPT ![t] = rec] /\ Finish(t, rec)
              /\ faulted' = TRUE
  /\ UNCHANGED <<cache, fs, remoteVer, nextId, made>>

\* lines 80-82: makedirs, then open(dest_path, 'wb') creates or truncates
\* the file; either may fail with an OSError
DzOpen(t) ==
  /\ th[t].pc = "dz_open"
  /\ \/ /\ th' = [th EXCEPT ![t] = [@ EXCEPT !.pc = "dz_write", !.io = Append(@, "open")]]
        /\ fs' = Put(fs, th[t].path, [content |-> th[t].resp, complete |-> FALSE])
        /\ UNCHANGED <<last, faulted>>
     \/ /\ LET rec == Handled(th[t], "IOError")
           IN  th' = [th EXCEPT ![t] = rec] /\ Finish(t, rec)
        /\ faulted' = TRUE
        /\ UNCHANGED fs
  /\ UNCHANGED <<cache, remoteVer, nextId, made>>

\* what is in the file once this writer has written all its chunks: its own
\* content, unless another writer had truncated the file for other content
Written(file, resp) ==
  IF file.content = resp THEN {resp} ELSE {resp, file.content, GarbledContent}

\* lines 83-86: the chunks are written and the file is closed; the stream or
\* the disk may fail before the last chunk, and the file stays as it is
DzWrite(t) ==
  /\ th[t].pc = "dz_write"
  /\ \/ /\ \E c \in Written(fs[th[t].path], th[t].resp) :
             fs' = Put(fs, th[t].path, [content |-> c, complete |-> TRUE])
        /\ th' = [th EXCEPT ![t] = AfterDownload([@ EXCEPT !.io = Append(@, "write")])]
        /\ UNCHANGED <<last, faulted>>
     \/ \E f \in {"ConnectionError", "RequestException", "IOError"} :
          /\ LET rec == Handled(th[t], f)
             IN  th' = [th EXCEPT ![t] = rec] /\ Finish(t, rec)
          /\ faulted' = TRUE
          /\ UNCHANGED fs
  /\ UNCHANGED <<cache, remoteVer, nextId, made>>

(***************************************************************************)
(* extract_md_files (116-163) and build_index (180-197) inside the call.   *)
(***************************************************************************)
\* a ZipFile constructor that takes any bytes for an archive
ReadableZipAlways(file) == TRUE

\* zipfile.ZipFile(path) succeeds on a completely written zip archive only
ReadableZip(file) == file.complete /\ Kind(file.content) = "zip"

\* extract_md_files returns documents: to its caller, or into build_index
\* (line 256)
AfterExtract(rec) ==
  IF rec.entry = "extract_md_files"
  THEN [rec EXCEPT !.pc = "returned"]
  ELSE [rec EXCEPT !.pc = "build", !.stages = Append(@, "build_index")]

\* lines 119-163: the file must exist and open as a zip archive; then the
\* loop over its entries
Extract(t) ==
  /\ th[t].pc = "extract"
  /\ LET rec ==
           IF th[t].path \notin DOMAIN fs
           THEN [Raised(th[t], "ExtractionError", "not found", "extract_md_files")
                   EXCEPT !.msg = "Zip file not found"]
           ELSE IF ~ReadableZip(fs[th[t].path])
           THEN [Raised(th[t], "ExtractionError", "BadZipFile", "extract_md_files")
                   EXCEPT !.msg = "Invalid or corrupted zip file"]
           ELSE AfterExtract(
                  [th[t] EXCEPT
                     !.docs = ExtractDocs(ArchiveOf(fs[th[t].path].content),
                                          fs[th[t].path].content)])
     IN  th' = [th EXCEPT ![t] = rec] /\ Finish(t, rec)
  /\ UNCHANGED <<cache, fs, remoteVer, nextId, faulted, made>>

\* build_index leaving an empty index in the cache when it refuses to build
BuildCachingEmpty(t) ==
  /\ th[t].pc = "build"
  /\ IF th[t].docs = <<>>
     THEN /\ LET rec == Raised(th[t], "IndexingError", "empty", "build_index")
             IN  th' = [th EXCEPT ![t] = rec] /\ Finish(t, rec)
          /\ cache' = Put(cache, th[t].url, NoIndex)
          /\ UNCHANGED nextId
     ELSE /\ th' = [th EXCEPT ![t] =
                      [@ EXCEPT !.pc = "store",
                                !.built = [id |-> nextId + 1, docs |-> th[t].docs]]]
          /\ nextId' = nextId + 1
          /\ UNCHANGED <<cache, last>>
  /\ UNCHANGED <<fs, remoteVer, faulted, made>>

\* a dict with the two keys the index is configured for (line 190-191)
IsDoc(x) == DOMAIN x = {"filename", "content"}
WellFormed(docs) == \A i \in 1..Len(docs) : IsDoc(docs[i])

\* build_index returns the index: to its caller, or into line 257
AfterBuild(rec) ==
  IF rec.entry = "build_index"
  THEN [rec EXCEPT !.pc = "returned", !.retIndex = rec.built]
  ELSE [rec EXCEPT !.pc = "store"]

\* a build_index that makes an index of no documents
BuildEmptyIndex(t) ==
  /\ th[t].pc = "build"
  /\ th' = [th EXCEPT ![t] =
              AfterBuild([@ EXCEPT !.built = [id |-> nextId + 1, docs |-> th[t].docs]])]
  /\ nextId' = nextId + 1
  /\ UNCHANGED <<cache, fs, remoteVer, last, faulted, made>>

\* a build_index that calls an empty list an invalid argument
BuildEmptyIsValueError(t) ==
  /\ th[t].pc = "build"
  /\ IF Len(th[t].docs) = 0
     THEN /\ LET rec == [Raised(th[t], "ValueError", "empty", "build_index") EXCEPT
                           !.msg = "Cannot build index from empty document list"]
             IN  th' = [th EXCEPT ![t] = rec] /\ Finish(t, rec)
          /\ UNCHANGED nextId
     ELSE /\ th' = [th EXCEPT ![t] =
                      AfterBuild([@ EXCEPT !.built = [id |-> nextId + 1, docs |-> th[t].docs]])]
          /\ nextId' = nextId + 1
          /\ UNCHANGED last
  /\ UNCHANGED <<cache, fs, remoteVer, faulted, made>>

\* lines 186-197: no index of zero documents; otherwise a new Index object
\* is made and fitted.  What Index.fit does with list elements that are no
\* documents is the library's: it may raise, and line 196 turns whatever it
\* raises into IndexingError, or it may go through.
Build(t) ==
  /\ th[t].pc = "build"
  /\ IF Len(th[t].docs) = 0
     THEN /\ LET rec == [Raised(th[t], "IndexingError", "empty", "build_index") EXCEPT
                           !.msg = "Cannot build index from empty document list"]
             IN  th' = [th EXCEPT ![t] = rec] /\ Finish(t, rec)
          /\ UNCHANGED nextId
     ELSE /\ \/ th' = [th EXCEPT ![t] =
                         AfterBuild([@ EXCEPT !.built = [id |-> nextId + 1,
                                                         docs |-> th[t].docs]])]
             \/ /\ ~WellFormed(th[t].docs)
                /\ th' = [th EXCEPT ![t] =
                            [Raised(th[t], "IndexingError", "fit", "build_index") EXCEPT
                               !.msg = "Failed to build index"]]
          /\ nextId' = nextId + 1
          /\ UNCHANGED last
  /\ UNCHANGED <<cache, fs, remoteVer, faulted, made>>

\* a store that keeps the newest entry only
StoreEvicting(t) ==
  /\ th[t].pc = "store"
  /\ cache' = Put(EmptyDict, th[t].url, th[t].built)
  /\ th' = [th EXCEPT ![t] = [@ EXCEPT !.pc = "return"]]
  /\ UNCHANGED <<fs, remoteVer, nextId, last, faulted, made>>

\* line 257: _index_cache[zip_url] = <the index build_index returned>
Store(t) ==
  /\ th[t].pc = "store"
  /\ cache' = Put(cache, th[t].url, th[t].built)
  /\ th' = [th EXCEPT ![t] = [@ EXCEPT !.pc = "return"]]
  /\ UNCHANGED <<fs, remoteVer, nextId, last, faulted, made>>

\* get_cached_index returns the index: to its caller, or into line 95 of
\* main.py
AfterGci(rec) ==
  IF rec.entry = "search_docs"
  THEN [rec EXCEPT !.pc = "se_validate", !.index = rec.retIndex,
                   !.stages = Append(@, "search")]
  ELSE [rec EXCEPT !.pc = "returned"]

\* line 258: return _index_cache[zip_url]
Return(t) ==
  /\ th[t].pc = "return"
  /\ LET rec == AfterGci([th[t] EXCEPT !.retIndex = cache[th[t].url]])
     IN  th' = [th EXCEPT ![t] = rec] /\ Finish(t, rec)
  /\ UNCHANGED <<cache, fs, remoteVer, nextId, faulted, made>>

(***************************************************************************)
(* search, search.py 216-232, and search_docs, main.py 94-104.             *)
(***************************************************************************)
\* a test that lets zero through
NumResultsOkFromZero(v) == IsInt(v) /\ v.n >= 0

\* line 225: isinstance(num_results, int) and num_results > 0
NumResultsOk(v) == IsInt(v) /\ v.n > 0

\* lines 216-226: the four checks, in their order
SeValidate(t) ==
  /\ th[t].pc = "se_validate"
  /\ LET bad(why, msg) == [Raised(th[t], "ValueError", why, "search") EXCEPT !.msg = msg]
         rec == IF th[t].index = PyNone
                THEN bad("index", "Index cannot be None")
                ELSE IF th[t].query.t # "str"
                THEN bad("query type", "Query must be a string")
                ELSE IF Strip(th[t].query.s) = <<>>
                THEN bad("query empty", "Query cannot be empty or whitespace only")
                ELSE IF ~NumResultsOk(th[t].num)
                THEN bad("num_results", "num_results must be a positive integer")
                ELSE [th[t] EXCEPT !.pc = "se_search"]
     IN  th' = [th EXCEPT ![t] = rec]
  /\ UNCHANGED <<cache, fs, remoteVer, nextId, last, faulted, made>>

\* what index.search(query, num_results=n) may return: documents of the
\* index, each at most once, at most n of them, in the order of its ranking
Ranked(index, n) ==
  {r \in UNION {[1..k -> 1..Len(index.docs)] : k \in 0..Len(index.docs)} :
     /\ Len(r) <= n
     /\ \A i, j \in 1..Len(r) : i # j => r[i] # r[j]}
Results(index, r) == [i \in 1..Len(r) |-> index.docs[r[i]]]

\* a search that hands the results back in the opposite order
SearchReturnReversed(results) ==
  [i \in 1..Len(results) |-> results[Len(results) + 1 - i]]

\* lines 229-230: results = index.search(...); return results
SearchReturn(results) == results

\* search returns the results: to its caller, or into line 98 of main.py
AfterSearch(rec) ==
  IF rec.entry = "search_docs"
  THEN [rec EXCEPT !.pc = "sd_preview"]
  ELSE [rec EXCEPT !.pc = "returned"]

\* lines 228-232: the index is asked; what it returns is returned, whatever
\* it raises is raised again as SearchError
IndexSearch(t) ==
  /\ th[t].pc = "se_search"
  /\ LET asked == [th[t] EXCEPT !.io = Append(@, "index.search"),
                               !.passed = <<th[t].query, th[t].num>>]
     IN  \/ \E r \in Ranked(th[t].index, th[t].num.n) :
              th' = [th EXCEPT ![t] =
                       AfterSearch([asked EXCEPT
                                      !.got = Results(th[t].index, r),
                                      !.results = SearchReturn(Results(th[t].index, r))])]
         \/ \E e \in {"Exception", "ValueError"} :
              th' = [th EXCEPT ![t] =
                       [Raised(asked, "SearchError", e, "search") EXCEPT
                          !.msg = "Search failed"]]
  /\ UNCHANGED <<cache, fs, remoteVer, nextId, last, faulted, made>>

\* the text of a document is a run of digits, told apart by position
DigitChars == <<"0", "1", "2", "3", "4", "5", "6", "7", "8", "9">>
Text(n) == [i \in 1..n |-> DigitChars[(i % Len(DigitChars)) + 1]]

\* the number of characters of a document: the size of its entry in a local
\* archive; what a URL serves is one character longer than a preview
SizeOf(content) ==
  IF content.of.origin.t = "zip"
  THEN LET I == {i \in 1..Len(content.of.origin.s) :
                   content.of.origin.s[i].filename = content.entry}
       IN  content.of.origin.s[SetMin(I)].size
  ELSE PreviewLen + 1
TextOf(content) == Text(SizeOf(content))

\* a preview that is cut from 500 characters on
ContentPreviewFrom500(text) ==
  IF Len(text) >= PreviewLen THEN Slice(text, PreviewLen) \o <<".", ".", ".">> ELSE text

\* main.py 101: doc["content"][:500] + "..." if len(doc["content"]) > 500
\* else doc["content"]
ContentPreview(text) ==
  IF Len(text) > PreviewLen THEN Slice(text, PreviewLen) \o <<".", ".", ".">> ELSE text

\* main.py 98-104: one dict per result
SdPreview(t) ==
  /\ th[t].pc = "sd_preview"
  /\ th' = [th EXCEPT ![t] =
              [@ EXCEPT !.pc = "returned",
                        !.ret = [i \in 1..Len(th[t].results) |->
                                   [filename |-> th[t].results[i].filename,
                                    content_preview |->
                                      ContentPreview(TextOf(th[t].results[i].content))]]]]
  /\ UNCHANGED <<cache, fs, remoteVer, nextId, last, faulted, made>>

(***************************************************************************)
(* The environment.                                                        *)
(***************************************************************************)
\* the remote side replaces what every URL serves
RemoteChange ==
  /\ remoteVer < MaxRemoteVer
  /\ remoteVer' = remoteVer + 1
  /\ UNCHANGED <<cache, fs, nextId, th, last, faulted, made>>

(***************************************************************************)
(* Specifications.                                                         *)
(***************************************************************************)
Step(t) ==
  \/ DzValidate(t)
  \/ DzExists(t)
  \/ DzGet(t)
  \/ DzOpen(t)
  \/ DzWrite(t)
  \/ Extract(t)
  \/ Build(t)
  \/ Store(t)
  \/ Return(t)

\* sequential use: one call at a time, each run to its end
Next ==
  \/ \E u \in Urls : get_cached_index(MainThread, u)
  \/ Step(MainThread)
  \/ RemoteChange

Spec == Init /\ [][Next]_vars

\* concurrent use: two threads make one call each, and their steps interleave
ConcUrls == {U1, U3, U4}

ConcCall(t, u) == th[t].pc = "idle" /\ get_cached_index(t, u)

NextConc ==
  \/ \E t \in Threads, u \in ConcUrls : ConcCall(t, u)
  \/ \E t \in Threads : Step(t)
  \/ RemoteChange

SpecConc == Init /\ [][NextConc]_vars

(***************************************************************************)
(* download_zip called by itself, on every input, in a directory that may  *)
(* already hold a file somebody else put there.                            *)
(***************************************************************************)
ExternalFile == [content |-> ExternalContent, complete |-> TRUE]

InitDz ==
  /\ cache = EmptyDict
  /\ fs \in {NoFiles} \cup
            {Put(NoFiles, join(d, n), ExternalFile) :
               d \in DzDirs, n \in {DownloadZipName, <<"a", ".", "z", "i", "p">>}}
  /\ remoteVer = 0
  /\ nextId = 0
  /\ th = [t \in Threads |-> IdleThread]
  /\ last = [k \in {} |-> NoOutcome]
  /\ faulted = FALSE
  /\ made = NoParts

\* the call download_zip(u, d)
download_zip(t, u, d) ==
  /\ Idle(t)
  /\ th' = [th EXCEPT ![t] =
              [Entered(t, "download_zip", u, d) EXCEPT
                 !.pc = "dz_validate", !.stages = <<"download_zip">>]]
  /\ UNCHANGED <<cache, fs, remoteVer, nextId, last, faulted>>

\* a first call, with a URL written from parts or with a value that is no str
CallWithUrl(t) ==
  /\ th[t].pc = "idle"
  /\ \E c \in UrlParts, d \in DzDirs :
       download_zip(t, Str(Compose(c)), d) /\ made' = c

CallWithOther(t) ==
  /\ th[t].pc = "idle"
  /\ \E u \in {PyNone, PyInt(0), PyInt(8)}, d \in DzDirs :
       download_zip(t, u, d) /\ made' = NoParts

\* a finished call is made again with the same arguments
CallAgain(t) ==
  /\ th[t].pc \in {"returned", "raised"}
  /\ download_zip(t, th[t].url, th[t].dir)
  /\ UNCHANGED made

NextDz ==
  \/ CallWithUrl(MainThread)
  \/ CallWithOther(MainThread)
  \/ CallAgain(MainThread)
  \/ DzValidate(MainThread)
  \/ DzExists(MainThread)
  \/ DzGet(MainThread)
  \/ DzOpen(MainThread)
  \/ DzWrite(MainThread)
  \/ RemoteChange

SpecDz == InitDz /\ [][NextDz]_vars


(***************************************************************************)
(* extract_md_files called by itself, on a path that may name no file, a   *)
(* file that is no zip archive, or an archive of any entries.              *)
(***************************************************************************)
\* the names archive entries are drawn from: the root directory, markdown
\* files below it and below a subdirectory, a file of another kind, and a
\* markdown file at the top of the archive
DirAMd == <<"r", "/", "d", "/", "a", ".", "m", "d">>
BMdx == <<"r", "/", "b", ".", "m", "d", "x">>
TopMd == <<"a", ".", "m", "d">>
Entries ==
  {Entry(RootDir, TRUE), Entry(ReadmeMd, TRUE), Entry(ReadmeMd, FALSE),
   Entry(BMdx, TRUE), Entry(CodePy, TRUE), Entry(DirAMd, TRUE), Entry(TopMd, TRUE)}
Archives == UNION {[1..n -> Entries] : n \in 0..MaxEntries}

\* the path of the file, and a path of no file
ZipPath == <<"a", ".", "z", "i", "p">>
NoSuchPath == <<"n", ".", "z", "i", "p">>
ZipPathArgs == {Str(ZipPath), Str(NoSuchPath), Str(<<>>), PyNone, PyInt(8)}

\* the file: an archive, an archive cut short, or a file of another kind
ZipFiles ==
  {[content |-> LocalZip(a), complete |-> TRUE] : a \in Archives}
    \cup {[content |-> LocalZip(<<Entry(ReadmeMd, TRUE)>>), complete |-> FALSE],
          ExternalFile}

InitEx ==
  /\ cache = EmptyDict
  /\ fs \in {Put(NoFiles, ZipPath, f) : f \in ZipFiles}
  /\ remoteVer = 0
  /\ nextId = 0
  /\ th = [t \in Threads |-> IdleThread]
  /\ last = [k \in {} |-> NoOutcome]
  /\ faulted = FALSE
  /\ made = NoParts

\* line 116: not zip_path or not isinstance(zip_path, str)
ZipPathOk(p) == Truthy(p) /\ p.t = "str"

\* the call extract_md_files(p) and the check of lines 116-117
extract_md_files(t, p) ==
  /\ Idle(t)
  /\ LET rec == [Entered(t, "extract_md_files", PyNone, <<>>) EXCEPT
                   !.arg = p, !.stages = <<"extract_md_files">>]
     IN  th' = [th EXCEPT ![t] =
                  IF ZipPathOk(p)
                  THEN [rec EXCEPT !.pc = "extract", !.path = p.s]
                  ELSE [Raised(rec, "ValueError", "invalid path", "extract_md_files")
                          EXCEPT !.msg = "Zip path must be a non-empty string"]]
  /\ UNCHANGED <<cache, fs, remoteVer, nextId, last, faulted, made>>

NextEx ==
  \/ \E p \in ZipPathArgs : extract_md_files(MainThread, p)
  \/ Extract(MainThread)

SpecEx == InitEx /\ [][NextEx]_vars


(***************************************************************************)
(* build_index called by itself, on every kind of argument.                *)
(***************************************************************************)
PyList(items) == [t |-> "list", s |-> items, n |-> 0]
PyTuple(items) == [t |-> "tuple", s |-> items, n |-> 0]

\* list elements: two documents, a number, and a dict without "content"
DocA == Doc(Entry(ReadmeMd, TRUE), ExternalContent)
DocB == Doc(Entry(BMdx, TRUE), ExternalContent)
NotADoc == PyInt(1)
HalfADoc == [filename |-> TopMd]
Elements == {DocA, DocB, NotADoc, HalfADoc}

DocumentsArgs ==
  {PyNone, PyInt(0), Str(<<"a">>), PyTuple(<<DocA>>)}
    \cup {PyList(l) : l \in UNION {[1..n -> Elements] : n \in 0..MaxDocs}}

\* the call build_index(documents) and the checks of lines 180-184
build_index(t, documents) ==
  /\ Idle(t)
  /\ nextId < MaxBuilds
  /\ LET rec == [Entered(t, "build_index", PyNone, <<>>) EXCEPT
                   !.arg = documents, !.stages = <<"build_index">>]
     IN  th' = [th EXCEPT ![t] =
                  IF documents.t = "NoneType"
                  THEN [Raised(rec, "ValueError", "none", "build_index")
                          EXCEPT !.msg = "Documents cannot be None"]
                  ELSE IF documents.t # "list"
                  THEN [Raised(rec, "ValueError", "not a list", "build_index")
                          EXCEPT !.msg = "Documents must be a list"]
                  ELSE [rec EXCEPT !.pc = "build", !.docs = documents.s]]
  /\ UNCHANGED <<cache, fs, remoteVer, nextId, last, faulted, made>>

NextBi ==
  \/ \E d \in DocumentsArgs : build_index(MainThread, d)
  \/ Build(MainThread)

SpecBi == Init /\ [][NextBi]_vars


(***************************************************************************)
(* search called by itself, on every kind of argument.                     *)
(***************************************************************************)
IndexAB == [id |-> 1, docs |-> <<DocA, DocB>>]
IndexArgs == {PyNone, IndexAB}
QueryArgs ==
  {Str(q) : q \in {<<>>, <<" ">>, <<"\t", "\n">>, <<"a">>, <<" ", "a", "\n">>}}
    \cup {PyNone, PyInt(1)}
NumArgs ==
  {PyInt(k) : k \in (0 - 1)..MaxNum}
    \cup {PyBool(TRUE), PyBool(FALSE), PyFloat(1, <<"0">>), PyFloat(1, <<"5">>),
          Str(<<"5">>), PyNone}

\* the call search(index, query, num_results)
search(t, index, query, num_results) ==
  /\ Idle(t)
  /\ th' = [th EXCEPT ![t] =
              [Entered(t, "search", PyNone, <<>>) EXCEPT
                 !.pc = "se_validate", !.index = index, !.query = query,
                 !.num = num_results, !.stages = <<"search">>]]
  /\ UNCHANGED <<cache, fs, remoteVer, nextId, last, faulted, made>>

NextSe ==
  \/ \E i \in IndexArgs, q \in QueryArgs, n \in NumArgs : search(MainThread, i, q, n)
  \/ SeValidate(MainThread)
  \/ IndexSearch(MainThread)

SpecSe == Init /\ [][NextSe]_vars


(***************************************************************************)
(* search_docs, main.py 94-104: get_cached_index, search, then the         *)
(* previews.  The directory may already hold the archive of the URL.       *)
(***************************************************************************)
\* an entry of UTF-8 text of the given number of characters
SizedEntry(name, size) == [filename |-> name, utf8 |-> TRUE, size |-> size]
Sizes == {0, PreviewLen - 1, PreviewLen, PreviewLen + 1, PreviewLen + MaxOver}
SdArchives ==
  {<<SizedEntry(ReadmeMd, a)>> : a \in Sizes}
    \cup {<<SizedEntry(ReadmeMd, a), SizedEntry(BMdx, b)>> : a, b \in Sizes}

SdQueries == {Str(<<"a">>), Str(<<" ">>)}
SdUrls == {U1, U4}
SdNums == {PyInt(k) : k \in 0..MaxNum}

InitSd ==
  /\ cache = EmptyDict
  /\ fs \in {NoFiles} \cup
            {Put(NoFiles, DestPath(U1, DefaultDir),
                 [content |-> LocalZip(a), complete |-> TRUE]) : a \in SdArchives}
  /\ remoteVer = 0
  /\ nextId = 0
  /\ th = [t \in Threads |-> IdleThread]
  /\ last = [k \in {} |-> NoOutcome]
  /\ faulted = FALSE
  /\ made = NoParts

\* a search_docs that checks the query and the limit before it looks for
\* the index
SearchDocsValidatingFirst(t, query, zip_url, num_results) ==
  /\ Idle(t)
  /\ LET rec == [Entered(t, "search_docs", zip_url, DefaultDir) EXCEPT
                   !.query = query, !.num = num_results]
     IN  IF query.t # "str" \/ Strip(query.s) = <<>> \/ ~NumResultsOk(num_results)
         THEN th' = [th EXCEPT ![t] =
                       [Raised(rec, "ValueError", "early", "search") EXCEPT
                          !.msg = "invalid arguments"]]
         ELSE IF InCache(zip_url)
         THEN th' = [th EXCEPT ![t] = AfterGci([rec EXCEPT !.retIndex = cache[zip_url]])]
         ELSE /\ nextId + InFlight < MaxBuilds
              /\ th' = [th EXCEPT ![t] =
                          [rec EXCEPT !.pc = "dz_validate", !.stages = <<"download_zip">>]]
  /\ UNCHANGED <<cache, fs, remoteVer, nextId, last, faulted, made>>

\* the call search_docs(query, zip_url, num_results) and line 94: the lookup
\* of get_cached_index, a hit going on to search, a miss into download_zip
search_docs(t, query, zip_url, num_results) ==
  /\ Idle(t)
  /\ LET rec == [Entered(t, "search_docs", zip_url, DefaultDir) EXCEPT
                   !.query = query, !.num = num_results]
     IN  IF InCache(zip_url)
         THEN th' = [th EXCEPT ![t] = AfterGci([rec EXCEPT !.retIndex = cache[zip_url]])]
         ELSE /\ nextId + InFlight < MaxBuilds
              /\ th' = [th EXCEPT ![t] =
                          [rec EXCEPT !.pc = "dz_validate", !.stages = <<"download_zip">>]]
  /\ UNCHANGED <<cache, fs, remoteVer, nextId, last, faulted, made>>

NextSd ==
  \/ \E q \in SdQueries, u \in SdUrls, n \in SdNums : search_docs(MainThread, q, u, n)
  \/ Step(MainThread)
  \/ SeValidate(MainThread)
  \/ IndexSearch(MainThread)
  \/ SdPreview(MainThread)

SpecSd == InitSd /\ [][NextSd]_vars

(***************************************************************************)
(* Properties of get_cached_index in sequential use (Spec).                *)
(***************************************************************************)
Pipeline == <<"download_zip", "extract_md_files", "build_index">>
IsPrefix(a, b) == Len(a) <= Len(b) /\ SubSeq(b, 1, Len(a)) = a
Finished(c) == c.pc \in {"returned", "raised"}
GciCalls == {t \in Threads : th[t].entry = "get_cached_index"}

\* C1: of two sequential get_cached_index calls with one URL, the first of
\* which returned, the first invoked download_zip, extract_md_files and
\* build_index once each; the second invokes none of them, does no I/O and
\* returns the very index object the first returned.
C1_SecondCallBuildsNothing ==
  \A t \in GciCalls :
    /\ th[t].prior.status = "returned" =>
         /\ th[t].pc = "returned"
         /\ th[t].stages = <<>>
         /\ th[t].io = <<>>
         /\ th[t].retIndex = th[t].prior.index
    /\ (th[t].pc = "returned" /\ th[t].prior.status # "returned") =>
         th[t].stages = Pipeline

C1_Witness ==
  \E t \in GciCalls :
    /\ th[t].prior.status = "returned"
    /\ th[t].pc = "returned"
    /\ th[t].retIndex.id > 0

\* the exception classes each stage raises
StageRaises(stage, exc) ==
  \/ stage = "download_zip" /\ exc \in {"ValueError", "DownloadError"}
  \/ stage = "extract_md_files" /\ exc = "ExtractionError"
  \/ stage = "build_index" /\ exc = "IndexingError"

\* C2: when get_cached_index fails, the caller gets the error of the stage
\* that was running, the cache has no entry for the URL, and the cache is
\* otherwise what it was when the call was made.
C2_FailureLeavesCacheAlone ==
  \A t \in GciCalls :
    th[t].pc = "raised" =>
      /\ th[t].raisedBy = th[t].stages[Len(th[t].stages)]
      /\ StageRaises(th[t].raisedBy, th[t].exc)
      /\ th[t].url \notin DOMAIN cache
      /\ cache = th[t].cache0

C2_Witness ==
  \E t \in GciCalls :
    /\ th[t].pc = "raised"
    /\ th[t].raisedBy = "build_index"
    /\ DOMAIN cache # {}

\* C3: the get_cached_index call that follows a failed call with the same
\* URL enters download_zip again and goes through the stages in order; when
\* it returns, all three have run and the index it returns was built during
\* this call and is the one stored under the URL.
C3_RetryStartsOver ==
  \A t \in GciCalls :
    th[t].prior.status = "raised" =>
      /\ th[t].stages # <<>>
      /\ IsPrefix(th[t].stages, Pipeline)
      /\ th[t].pc = "returned" =>
           /\ th[t].stages = Pipeline
           /\ th[t].retIndex.id > th[t].nextId0
           /\ th[t].url \in DOMAIN cache
           /\ cache[th[t].url] = th[t].retIndex

C3_Witness ==
  \E t \in GciCalls :
    /\ th[t].prior.status = "raised"
    /\ th[t].pc = "returned"

\* C4 (as claimed): the index cached under a URL is built only from
\* documents of the archive that URL serves.
C4_IndexFromOwnArchive ==
  \A u \in DOMAIN cache :
    \A i \in 1..Len(cache[u].docs) : cache[u].docs[i].content.of.origin = u

\* C5: in sequential use an entry of the cache is never removed and never
\* replaced by another index, and build_index is not entered again for a
\* URL that has an entry.
C5_EntryIsPermanent ==
  [][\A u \in DOMAIN cache :
       /\ u \in DOMAIN cache'
       /\ cache'[u] = cache[u]
       /\ \A t \in Threads :
            (th'[t].pc = "build" /\ th[t].pc # "build") => th'[t].url # u]_vars

C5_Witness ==
  \E t \in GciCalls :
    /\ th[t].url \in DOMAIN th[t].cache0
    /\ th[t].pc = "returned"
    /\ Cardinality(DOMAIN cache) > 1

(***************************************************************************)
(* Two interleaved calls (SpecConc).                                       *)
(***************************************************************************)
\* C6 (as claimed): when two calls for one uncached URL that serves a zip
\* archive with documents both find the key missing, and neither the
\* network nor the disk fails, both calls return and the cache holds the
\* index one of them built.
C6_ConcurrentMissesBothReturn ==
  \A t1, t2 \in GciCalls :
    ( /\ t1 # t2
      /\ th[t1].url = th[t2].url
      /\ th[t1].url \in {U1, U3}
      /\ th[t1].stages # <<>> /\ th[t2].stages # <<>>
      /\ Finished(th[t1]) /\ Finished(th[t2])
      /\ ~faulted )
    => /\ th[t1].pc = "returned" /\ th[t2].pc = "returned"
       /\ th[t1].url \in DOMAIN cache
       /\ cache[th[t1].url] \in {th[t1].built, th[t2].built}

(***************************************************************************)
(* Properties of download_zip called by itself (SpecDz).                   *)
(***************************************************************************)
DzCalls == {t \in Threads : th[t].entry = "download_zip"}

\* C7: when a file exists at the derived path as download_zip is called
\* with a valid URL, the call returns that path, its only I/O is the
\* existence test, and the files are what they were, whatever the URL
\* serves by then.
C7_ExistingFileIsReturned ==
  \A t \in DzCalls :
    (UrlOk(th[t].url) /\ DestPath(th[t].url, th[t].dir) \in DOMAIN th[t].fs0) =>
      /\ th[t].pc \in {"dz_validate", "dz_exists", "returned"}
      /\ "get" \notin {th[t].io[i] : i \in 1..Len(th[t].io)}
      /\ fs = th[t].fs0
      /\ th[t].pc = "returned" =>
           /\ th[t].path = DestPath(th[t].url, th[t].dir)
           /\ th[t].io = <<"exists">>

C7_Witness ==
  \E t \in DzCalls :
    /\ th[t].pc = "returned"
    /\ th[t].path \in DOMAIN th[t].fs0
    /\ remoteVer > 0
    /\ fs[th[t].path].content # [origin |-> th[t].url, ver |-> remoteVer]

\* C8 (as claimed): after download_zip has raised DownloadError no file is
\* at the derived path, and a file whose path download_zip returns is a
\* completely written one.
C8_NothingWrittenOnFailure ==
  \A t \in DzCalls :
    /\ (th[t].pc = "raised" /\ th[t].exc = "DownloadError") =>
         th[t].path \notin DOMAIN fs
    /\ th[t].pc = "returned" => fs[th[t].path].complete

\* the URLs C9 calls invalid, read off the parts the URL was written from
InvalidAsClaimed(u, parts) ==
  \/ u.t # "str"
  \/ u.s = <<>>
  \/ parts.scheme \notin {HTTP, HTTPS}
  \/ parts.host = <<>>

\* C9 (as claimed): for a url that is empty, no str, of a scheme other than
\* http and https, or of an empty host, download_zip raises ValueError
\* before any filesystem or network operation.
C9_InvalidUrlRaisesFirst ==
  \A t \in DzCalls :
    (InvalidAsClaimed(th[t].url, made) /\ th[t].pc # "dz_validate") =>
      /\ th[t].pc = "raised"
      /\ th[t].exc = "ValueError"
      /\ th[t].io = <<>>

\* the last segment of a path: what follows its last "/"
LastSegment(path) == From(path, RFind(path, "/") + 1)

\* C10 (as claimed): the path download_zip returns is dest_dir joined with
\* the last segment of the URL's path when that segment ends in ".zip", and
\* with "download.zip" otherwise.
C10_PathFromLastSegment ==
  \A t \in DzCalls :
    (th[t].pc = "returned" /\ ~InvalidAsClaimed(th[t].url, made)) =>
      th[t].path = join(th[t].dir,
                        IF EndsWith(LastSegment(made.path), DotZip)
                        THEN LastSegment(made.path)
                        ELSE DownloadZipName)

(***************************************************************************)
(* C11.  download_zip reports every failure after validation as a          *)
(* DownloadError whose message tells the cause.                            *)
(***************************************************************************)
\* what went wrong when an exception of class cls was raised
CauseOf(cls) ==
  CASE cls \in {"ConnectTimeout", "Timeout"} -> "timeout"
    [] cls = "ConnectionError" -> "connection"
    [] cls = "HTTPError" -> "http status"
    [] cls = "RequestException" -> "transport"
    [] cls = "IOError" -> "local write"
    [] OTHER -> "other"

\* the message that names each cause, one per cause
MessageOfCause(cause) ==
  CASE cause = "timeout" -> "Download timed out"
    [] cause = "connection" -> "Connection error"
    [] cause = "http status" -> "HTTP error"
    [] cause = "transport" -> "Download failed"
    [] cause = "local write" -> "Failed to save file"
    [] OTHER -> ""

\* the direct download_zip calls that failed after the URL had been accepted
DzFailedAfterValidation ==
  {t \in DzCalls : th[t].pc = "raised" /\ th[t].io # <<>>}

\* C11: every failure of download_zip after URL validation (timeout,
\* connection failure, HTTP status, other transport failure, failure to
\* create the directory or to write the file) is raised as DownloadError
\* and nothing else, with the message of its cause, and the five causes
\* have five different messages.
C11_FailuresAreDownloadErrors ==
  \A t \in DzFailedAfterValidation :
    /\ th[t].exc = "DownloadError"
    /\ CauseOf(th[t].why) # "other"
    /\ th[t].msg = MessageOfCause(CauseOf(th[t].why))

\* a connect timeout, which is a ConnectionError as well, reported as a
\* timeout
C11_Witness ==
  \E t \in DzFailedAfterValidation :
    /\ th[t].why = "ConnectTimeout"
    /\ th[t].exc = "DownloadError"
    /\ th[t].msg = "Download timed out"

(***************************************************************************)
(* C12, C13, C14.  extract_md_files on its own.                            *)
(***************************************************************************)
\* the direct extract_md_files calls that have ended
ExCalls ==
  {t \in Threads : th[t].entry = "extract_md_files" /\ th[t].pc \in {"returned", "raised"}}

\* the calls that were given the path of a complete zip archive
ExCallsOnArchive ==
  {t \in ExCalls : /\ ZipPathOk(th[t].arg)
                   /\ th[t].arg.s \in DOMAIN fs
                   /\ fs[th[t].arg.s].complete
                   /\ fs[th[t].arg.s].content.origin.t = "zip"}

\* the entries the call was given
GivenEntries(t) == fs[th[t].arg.s].content.origin.s

\* an entry that is no directory, is named *.md or *.mdx, and is UTF-8 text
MarkdownText(e) ==
  /\ e.filename = <<>> \/ e.filename[Len(e.filename)] # "/"
  /\ \/ Len(e.filename) >= 3 /\ SubSeq(e.filename, Len(e.filename) - 2, Len(e.filename)) = <<".", "m", "d">>
     \/ Len(e.filename) >= 4 /\ SubSeq(e.filename, Len(e.filename) - 3, Len(e.filename)) = <<".", "m", "d", "x">>
  /\ e.utf8

\* C12: on a valid archive extract_md_files does not raise and returns one
\* document for each entry that is no directory, is named *.md or *.mdx and
\* decodes as UTF-8, in the order of the archive, entries of the same
\* identifier included; all other entries are left out, and an archive
\* without such an entry gives the empty list.
C12_ExactlyTheMarkdownEntries ==
  \A t \in ExCallsOnArchive :
    LET kept == SelectSeq(GivenEntries(t), MarkdownText)
    IN  /\ th[t].pc = "returned"
        /\ Len(th[t].docs) = Len(kept)
        /\ \A i \in 1..Len(kept) :
             th[t].docs[i].content =
               [of |-> fs[th[t].arg.s].content, entry |-> kept[i].filename]

\* an archive of an undecodable entry, another file and two entries of one
\* name gave two documents of one identifier
C12_Witness ==
  \E t \in ExCallsOnArchive :
    /\ th[t].pc = "returned"
    /\ Len(GivenEntries(t)) = MaxEntries
    /\ \E i \in 1..Len(GivenEntries(t)) : ~GivenEntries(t)[i].utf8
    /\ Len(th[t].docs) = 2
    /\ th[t].docs[1].filename = th[t].docs[2].filename

\* the path without its first segment: what follows the first "/", and
\* nothing when the path is one segment
FirstSegmentRemoved(path) ==
  LET I == {i \in 1..Len(path) : path[i] = "/"}
  IN  IF I = {} THEN <<>> ELSE SubSeq(path, SetMin(I) + 1, Len(path))

\* what follows the first "/" of a path that has one, the whole path otherwise
PrefixRemoved(path) ==
  LET I == {i \in 1..Len(path) : path[i] = "/"}
  IN  IF I = {} THEN path ELSE SubSeq(path, SetMin(I) + 1, Len(path))

\* C13 as stated: the identifier of every file entry, one of a single
\* segment included, is its path without the first segment, and an entry
\* left with an empty identifier gives no document.
C13_FirstSegmentRemoved ==
  \A t \in ExCallsOnArchive :
    \A i \in 1..Len(th[t].docs) :
      /\ th[t].docs[i].filename = FirstSegmentRemoved(th[t].docs[i].content.entry)
      /\ th[t].docs[i].filename # <<>>

\* C13 amended: the identifier of a file entry whose path has a "/" is what
\* follows the first "/"; an entry of a single segment keeps its whole path
\* as identifier; no document has an empty identifier.
C13_PrefixRemovedWhenPresent ==
  \A t \in ExCallsOnArchive :
    \A i \in 1..Len(th[t].docs) :
      /\ th[t].docs[i].filename = PrefixRemoved(th[t].docs[i].content.entry)
      /\ th[t].docs[i].filename # <<>>

\* a file at the top of the archive and a file two directories down both
\* became documents
C13_Witness ==
  \E t \in ExCallsOnArchive :
    /\ \E i \in 1..Len(th[t].docs) :
         th[t].docs[i].content.entry = TopMd /\ th[t].docs[i].filename = TopMd
    /\ \E i \in 1..Len(th[t].docs) :
         th[t].docs[i].content.entry = DirAMd /\ th[t].docs[i].filename = <<"d", "/", "a", ".", "m", "d">>

\* C14: a path of no existing file raises ExtractionError "not found", an
\* existing file that is no valid zip archive raises ExtractionError
\* "invalid or corrupted"; neither returns documents.
C14_MissingOrInvalidRaisesExtractionError ==
  \A t \in ExCalls :
    ZipPathOk(th[t].arg) =>
      /\ th[t].arg.s \notin DOMAIN fs =>
           /\ th[t].pc = "raised"
           /\ th[t].exc = "ExtractionError"
           /\ th[t].msg = "Zip file not found"
           /\ th[t].docs = <<>>
      /\ (th[t].arg.s \in DOMAIN fs /\ th[t] \notin {th[o] : o \in ExCallsOnArchive}) =>
           /\ th[t].pc = "raised"
           /\ th[t].exc = "ExtractionError"
           /\ th[t].msg = "Invalid or corrupted zip file"
           /\ th[t].docs = <<>>

\* a file that is no zip archive was refused
C14_Witness ==
  \E t \in ExCalls :
    /\ ZipPathOk(th[t].arg)
    /\ th[t].arg.s \in DOMAIN fs
    /\ fs[th[t].arg.s] = ExternalFile
    /\ th[t].exc = "ExtractionError"
    /\ th[t].msg = "Invalid or corrupted zip file"

(***************************************************************************)
(* C15, C16.  build_index on its own.                                      *)
(***************************************************************************)
\* the direct build_index calls that have ended
BiCalls ==
  {t \in Threads : th[t].entry = "build_index" /\ th[t].pc \in {"returned", "raised"}}

\* the call made no Index object
NothingBuilt(t) == nextId = th[t].nextId0 /\ th[t].built = NoIndex

\* C15: build_index(None) and build_index of a value that is no list raise
\* ValueError, build_index([]) raises IndexingError, and none of these
\* calls constructs or fits an index.
C15_AbsentIsNotEmpty ==
  \A t \in BiCalls :
    /\ th[t].arg.t # "list" =>
         th[t].pc = "raised" /\ th[t].exc = "ValueError" /\ NothingBuilt(t)
    /\ (th[t].arg.t = "list" /\ Len(th[t].arg.s) = 0) =>
         th[t].pc = "raised" /\ th[t].exc = "IndexingError" /\ NothingBuilt(t)

\* build_index([]) was refused after an earlier call had built an index
C15_Witness ==
  \E t \in BiCalls :
    /\ th[t].arg.t = "list" /\ Len(th[t].arg.s) = 0
    /\ th[t].exc = "IndexingError"
    /\ nextId > 0
    /\ NothingBuilt(t)

\* a list, empty or not, of dicts with a filename and a content
ProperDocuments(v) ==
  /\ v.t = "list"
  /\ \A i \in 1..Len(v.s) : DOMAIN v.s[i] = {"filename", "content"}

\* C16: build_index of an argument that is no proper list of (filename,
\* content) documents, a non-empty list of other elements included, fails
\* with ValueError and not with IndexingError.
C16_MalformedDocumentsAreInputErrors ==
  \A t \in BiCalls :
    ~ProperDocuments(th[t].arg) => th[t].pc = "raised" /\ th[t].exc = "ValueError"

(***************************************************************************)
(* C17, C18, C19.  search on its own.                                      *)
(***************************************************************************)
\* the direct search calls on an index that is not None
SeCalls == {t \in Threads : th[t].entry = "search" /\ th[t].index # PyNone}

\* the index's search operation has been invoked by the call
Asked(t) == \E i \in 1..Len(th[t].io) : th[t].io[i] = "index.search"

\* the call raised ValueError without asking the index, or is about to
RefusedUnasked(t) ==
  /\ th[t].pc \in {"se_validate", "raised"}
  /\ ~Asked(t)
  /\ th[t].pc = "raised" => th[t].exc = "ValueError"

\* no str, the empty str, or a str of blanks, tabs and newlines only
InvalidQuery(q) ==
  \/ q.t # "str"
  \/ \A i \in 1..Len(q.s) : q.s[i] = " " \/ q.s[i] = "\t" \/ q.s[i] = "\n"

\* C17: for every index that is not None and every limit, search raises
\* ValueError when the query is no string, is empty or is whitespace only,
\* and does so before the index's search operation is invoked.
C17_InvalidQueryRaisesBeforeDelegation ==
  \A t \in SeCalls : InvalidQuery(th[t].query) => RefusedUnasked(t)

\* a query of a tab and a newline was refused, the limit being valid
C17_Witness ==
  \E t \in SeCalls :
    /\ th[t].query = Str(<<"\t", "\n">>)
    /\ th[t].num = PyInt(1)
    /\ th[t].pc = "raised"
    /\ th[t].exc = "ValueError"
    /\ ~Asked(t)

\* an integer greater than zero; True is the integer 1
PositiveInteger(v) == v.t \in {"int", "bool"} /\ v.n >= 1

\* C18: for every index that is not None and every valid query, search
\* raises ValueError when num_results is zero, negative or no integer, and
\* the index is asked only when num_results is a positive integer.
C18_OnlyPositiveIntegerLimitDelegates ==
  \A t \in SeCalls :
    ~InvalidQuery(th[t].query) =>
      /\ ~PositiveInteger(th[t].num) => RefusedUnasked(t)
      /\ (Asked(t) \/ th[t].pc \in {"se_search", "returned"}) => PositiveInteger(th[t].num)

\* the float 1.0 was refused
C18_Witness ==
  \E t \in SeCalls :
    /\ ~InvalidQuery(th[t].query)
    /\ th[t].num = PyFloat(1, <<"0">>)
    /\ th[t].pc = "raised"
    /\ th[t].exc = "ValueError"
    /\ ~Asked(t)

\* C19: on valid inputs search asks the index with the query and the limit
\* it was given and returns the very list the index returned, same
\* elements in the same order; what the index raises is raised as
\* SearchError.
C19_ResultsPassedThrough ==
  \A t \in SeCalls :
    /\ Asked(t) => th[t].passed = <<th[t].query, th[t].num>>
    /\ th[t].pc = "returned" =>
         /\ Asked(t)
         /\ Len(th[t].results) = Len(th[t].got)
         /\ \A i \in 1..Len(th[t].got) : th[t].results[i] = th[t].got[i]
    /\ (th[t].pc = "raised" /\ Asked(t)) => th[t].exc = "SearchError"

\* two results came back in the order of the index's ranking, the second
\* document of the index first
C19_Witness ==
  \E t \in SeCalls :
    /\ th[t].pc = "returned"
    /\ th[t].got = <<DocB, DocA>>
    /\ th[t].results = <<DocB, DocA>>

(***************************************************************************)
(* C20.  The previews of search_docs.                                      *)
(***************************************************************************)
\* the search_docs calls that returned
SdReturned == {t \in Threads : th[t].entry = "search_docs" /\ th[t].pc = "returned"}

\* preview is all of text when text has at most 500 characters, and its
\* first 500 characters and three dots when it has more
PreviewOf(preview, text) ==
  IF Len(text) <= PreviewLen
  THEN preview = text
  ELSE /\ Len(preview) = PreviewLen + 3
       /\ \A k \in 1..PreviewLen : preview[k] = text[k]
       /\ \A k \in (PreviewLen + 1)..(PreviewLen + 3) : preview[k] = "."

\* C20: every result of search_docs carries as content_preview the whole
\* content when that has at most 500 characters, and its first 500
\* characters followed by "..." when it has more; the results are as many
\* as search returned and in the same order.
C20_PreviewIsFirst500 ==
  \A t \in SdReturned :
    /\ Len(th[t].ret) = Len(th[t].results)
    /\ \A i \in 1..Len(th[t].results) :
         /\ th[t].ret[i].filename = th[t].results[i].filename
         /\ PreviewOf(th[t].ret[i].content_preview, TextOf(th[t].results[i].content))

\* two results, one of exactly 500 characters given whole and one longer
\* that was cut
C20_Witness ==
  \E t \in SdReturned :
    /\ Len(th[t].ret) = 2
    /\ Len(TextOf(th[t].results[1].content)) = PreviewLen
    /\ Len(th[t].ret[1].content_preview) = PreviewLen
    /\ Len(TextOf(th[t].results[2].content)) = PreviewLen + MaxOver
    /\ Len(th[t].ret[2].content_preview) = PreviewLen + 3

(***************************************************************************)
(* C21.  No index of zero documents is ever cached.                        *)
(***************************************************************************)
\* the get_cached_index calls whose archive gave no document
GciCallsWithoutDocuments ==
  {t \in GciCalls :
     /\ \E i \in 1..Len(th[t].stages) : th[t].stages[i] = "build_index"
     /\ Len(th[t].docs) = 0}

\* C21: when the archive of a URL gives no qualifying document,
\* get_cached_index raises IndexingError and stores nothing; every index in
\* the cache was built from at least one document.
C21_NoEmptyIndexCached ==
  /\ \A u \in DOMAIN cache : cache[u].id > 0 /\ Len(cache[u].docs) > 0
  /\ \A t \in GciCallsWithoutDocuments :
       /\ th[t].pc \in {"build", "raised"}
       /\ th[t].url \notin DOMAIN cache
       /\ cache = th[t].cache0
       /\ th[t].pc = "raised" =>
            /\ th[t].exc = "IndexingError"
            /\ th[t].raisedBy = "build_index"
            /\ th[t].built = NoIndex

\* an archive without markdown files was refused while the cache held the
\* index of another URL
C21_Witness ==
  \E t \in GciCallsWithoutDocuments :
    /\ th[t].pc = "raised"
    /\ th[t].exc = "IndexingError"
    /\ th[t].path \in DOMAIN fs /\ ReadableZip(fs[th[t].path])
    /\ \E u \in DOMAIN cache : Len(cache[u].docs) > 0

(***************************************************************************)
(* C22.  search_docs gets or builds the index before search looks at the   *)
(* query and the limit.                                                    *)
(***************************************************************************)
\* the search_docs calls with a blank query or a limit that is no positive
\* integer, made when the cache had no entry for the URL
SdBadCallsUncached ==
  {t \in Threads :
     /\ th[t].entry = "search_docs"
     /\ InvalidQuery(th[t].query) \/ ~PositiveInteger(th[t].num)
     /\ th[t].url \notin DOMAIN th[t].cache0}

\* C22: a search_docs call with a blank query or a non-positive limit for a
\* URL that is not cached goes through download, extraction and index
\* build first and stores the new index under the URL; only then is
\* ValueError raised, and the index is never asked.  (When one of the three
\* stages fails, its error is the one raised.)
C22_BuildsBeforeItValidates ==
  \A t \in SdBadCallsUncached :
    /\ th[t].pc \notin {"se_search", "sd_preview", "returned"}
    /\ ~Asked(t)
    /\ th[t].pc = "se_validate" =>
         /\ th[t].stages = Pipeline \o <<"search">>
         /\ cache = Put(th[t].cache0, th[t].url, th[t].built)
    /\ th[t].pc = "raised" =>
         \/ /\ th[t].raisedBy = "search"
            /\ th[t].exc = "ValueError"
            /\ th[t].stages = Pipeline \o <<"search">>
            /\ th[t].built.id = th[t].nextId0 + 1
            /\ cache = Put(th[t].cache0, th[t].url, th[t].built)
         \/ /\ th[t].raisedBy \in {Pipeline[i] : i \in 1..Len(Pipeline)}
            /\ th[t].exc \in {"DownloadError", "ExtractionError", "IndexingError"}
            /\ cache = th[t].cache0

\* a blank query left a new cache entry behind, after a download
C22_Witness ==
  \E t \in SdBadCallsUncached :
    /\ th[t].query = Str(<<" ">>)
    /\ th[t].pc = "raised"
    /\ th[t].exc = "ValueError"
    /\ \E i \in 1..Len(th[t].io) : th[t].io[i] = "write"
    /\ th[t].url \in DOMAIN cache

(***************************************************************************)
(* C23.  A file that is no zip archive stays, and fails every later call.  *)
(***************************************************************************)
\* the get_cached_index calls made when the file at the path derived from
\* their URL was no valid zip archive
GciCallsOnInvalidFile ==
  {t \in GciCalls :
     /\ UrlOk(th[t].url)
     /\ DestPath(th[t].url, th[t].dir) \in DOMAIN th[t].fs0
     /\ ~ReadableZip(th[t].fs0[DestPath(th[t].url, th[t].dir)])}

====
